---- MODULE Spec2Model ----
(***************************************************************************)
(* Order-management backend: the persisted (Mongo-backed) revision of the  *)
(* webhook -> transform -> upsert pipeline, with the measurement,          *)
(* pickup-point and fulfillment endpoints that update stored orders.       *)
(***************************************************************************)
EXTENDS Integers, Sequences, FiniteSets

VARIABLES
    env,    \* process.env: the configured webhook secret
    db,     \* the Order collection: the stored documents, in insertion order
    reqs,   \* the webhook requests being handled, one record per slot
    resp,   \* the last answer sent
    now,    \* the server clock (new Date())
    ordersStore \* the order list of the in-memory revisions, newest first

vars == <<env, db, reqs, resp, now, ordersStore>>

\* ---------------------------------------------------------------- bounds
MaxInFlight == 2
MaxTime == 1
MaxOrders == 52
MaxStored == 4

\* ------------------------------------------------------------- JS values
Undefined == [t |-> "undefined"]
Null == [t |-> "null"]
Num(n) == [t |-> "num", v |-> n]
Str(s) == [t |-> "str", v |-> s]
Arr(s) == [t |-> "arr", v |-> s]
Bool(b) == [t |-> "bool", v |-> b]

Digit == <<"0", "1", "2", "3", "4", "5", "6", "7", "8", "9">>

RECURSIVE NumToStr(_)
NumToStr(n) ==
    IF n < 10 THEN Digit[n + 1]
    ELSE NumToStr(n \div 10) \o Digit[(n % 10) + 1]

\* x.toString(): throws on undefined / null
CanToString(x) == x.t \in {"num", "str"}
toString(x) == IF x.t = "num" THEN NumToStr(x.v) ELSE x.v

\* a || b for the string-or-undefined values used here
OrElse(a, b) == IF a.t \in {"undefined", "null"} \/ a = Str("") THEN b ELSE a

\* ------------------------------------------------- webhook verification
NoSecret == [set |-> FALSE]
Secret(k) == [set |-> TRUE, key |-> k]

\* crypto.createHmac('sha256', key).update(body).digest('base64'): a
\* collision-free keyed hash of the raw body
Hmac(key, rawBody) == [t |-> "str", alg |-> "sha256", key |-> key, over |-> rawBody]

\* req.rawBody is set by the express.json verify hook, only when a body was read
HasRawBody(req) == req.rawBody.t # "undefined"

\* the comparison skipped when the header is missing
verifyWebhookIfSigned(req, secret) ==
    /\ secret.set
    /\ HasRawBody(req)
    /\ (req.hmac.t = "undefined" \/ Hmac(secret.key, req.rawBody) = req.hmac)

\* TRUE: next() is called; FALSE: 401 (mismatch, or createHmac / update threw)
verifyWebhook(req, secret) ==
    /\ secret.set
    /\ HasRawBody(req)
    /\ Hmac(secret.key, req.rawBody) = req.hmac

\* ------------------------------------------------------ catalog (outbound)
\* `gid://shopify/Product/${item.product_id}`
Gid(product_id) == "gid://shopify/Product/" \o NumToStr(product_id)

productIds(webhookOrder) ==
    [i \in 1..Len(webhookOrder.line_items.v) |->
        Gid(webhookOrder.line_items.v[i].product_id)]

\* a Product node of the catalog's answer
ProductNode(gid) == [t |-> "obj", id |-> gid, title |-> "catalog " \o gid]

\* nodes(ids: $ids): one entry per requested id, null where the catalog has none
CatalogNodes(ids, known) ==
    [i \in 1..Len(ids) |-> IF ids[i] \in known THEN ProductNode(ids[i]) ELSE Null]

NetworkError == [kind |-> "network_error"]
ParseError == [kind |-> "parse_error"]
\* a body with no data member, as a GraphQL error answer has
ErrorPayload == [kind |-> "json", data |-> Undefined]
NodesPayload(nodes) == [kind |-> "json", data |-> [t |-> "obj", nodes |-> Arr(nodes)]]

\* what fetch(...) and productResponse.json() yield for the ids asked
CatalogAnswer(outcome, ids) ==
    CASE outcome.kind = "network_error" -> NetworkError
      [] outcome.kind = "parse_error" -> ParseError
      [] outcome.kind = "errors" -> ErrorPayload
      [] OTHER -> NodesPayload(CatalogNodes(ids, outcome.known))

\* productData.data?.nodes?.forEach(product => { if (product) productsById[product.id] = product })
productsById(productData) ==
    IF productData.data.t = "undefined" THEN << >>
    ELSE LET nodes == productData.data.nodes.v
             live == {i \in 1..Len(nodes) : nodes[i].t = "obj"}
             keys == {nodes[i].id : i \in live}
         IN  [k \in keys |->
                nodes[CHOOSE i \in live :
                        /\ nodes[i].id = k
                        /\ \A j \in live : nodes[j].id = k => j <= i]]

\* the lookup without its `|| null`
LookupProductNoDefault(byId, productId) ==
    IF productId \in DOMAIN byId THEN byId[productId] ELSE Undefined

\* productsById[productId] || null
LookupProduct(byId, productId) ==
    IF productId \in DOMAIN byId THEN byId[productId] ELSE Null

lineItemsWithProductData(webhookOrder, byId) ==
    [i \in 1..Len(webhookOrder.line_items.v) |->
        LET item == webhookOrder.line_items.v[i]
        IN  [title |-> item.title,
             product_id |-> Gid(item.product_id),
             variant_id |-> item.variant_id,
             requires_shipping |-> item.requires_shipping,
             quantity |-> item.current_quantity,
             product_data |-> LookupProduct(byId, Gid(item.product_id))]]

RECURSIVE SumQuantity(_, _)
SumQuantity(items, n) ==
    IF n = 0 THEN 0 ELSE SumQuantity(items, n - 1) + items[n].current_quantity

totalItemCount(webhookOrder) ==
    SumQuantity(webhookOrder.line_items.v, Len(webhookOrder.line_items.v))

\* ------------------------------------------------------------ transform
PickupPointLabel == "Standard - Pickup Point"
HomeDeliveryLabel == "Standard - Home Delivery"

\* webhookOrder.shipping_lines[0]?.title || ''
shippingTitle(webhookOrder) ==
    IF Len(webhookOrder.shipping_lines.v) = 0 THEN Str("")
    ELSE OrElse(webhookOrder.shipping_lines.v[1].title, Str(""))

\* the label matched without regard to case
defaultMethodAnyCase(title) ==
    IF title \in {Str(PickupPointLabel), Str("standard - pickup point")}
    THEN "service_point"
    ELSE "home_delivery"

defaultMethod(title) ==
    IF title = Str(PickupPointLabel) THEN "service_point"
    ELSE IF title = Str(HomeDeliveryLabel) THEN "home_delivery"
    ELSE "home_delivery"

\* webhookOrder.shipping_address?.f
AddressField(webhookOrder, f) ==
    IF webhookOrder.shipping_address.t = "obj"
    THEN webhookOrder.shipping_address[f]
    ELSE Undefined

\* the statements of the handler that throw a TypeError on a missing member
ThrowsBeforeFetch(webhookOrder) == webhookOrder.line_items.t # "arr"
ThrowsInTransform(webhookOrder) ==
    \/ webhookOrder.shipping_lines.t # "arr"
    \/ ~CanToString(webhookOrder.id)

transformedOrder(webhookOrder, productData, time) ==
    [shopifyId |-> toString(webhookOrder.id),
     orderNumber |-> webhookOrder.order_number,
     line_items |-> lineItemsWithProductData(webhookOrder, productsById(productData)),
     total_item_count |-> totalItemCount(webhookOrder),
     shipping_address |->
        [name |-> AddressField(webhookOrder, "name"),
         address1 |-> AddressField(webhookOrder, "address1"),
         address2 |-> AddressField(webhookOrder, "address2"),
         city |-> AddressField(webhookOrder, "city"),
         zip |-> AddressField(webhookOrder, "zip"),
         country_code |-> AddressField(webhookOrder, "country_code"),
         phone |-> AddressField(webhookOrder, "phone")],
     shipping_method |-> defaultMethod(shippingTitle(webhookOrder)),
     shipping_lines |->
        [i \in 1..Len(webhookOrder.shipping_lines.v) |->
            [title |-> webhookOrder.shipping_lines.v[i].title,
             code |-> webhookOrder.shipping_lines.v[i].code]],
     created_at |-> time]

\* ---------------------------------------------------------- Order schema
DefaultDimensions ==
    [length |-> Null, width |-> Null, height |-> Null, weight |-> Null, boxes |-> Null]

SchemaPaths ==
    {"shopifyId", "orderNumber", "line_items", "shipping_address", "shipping_lines",
     "created_at", "dimensions", "pickupPoint", "isFulfilled", "shipping_method"}

\* Number paths: a number is kept, a numeric string is converted, anything else
\* is a CastError
ParseNumber(s) == CASE s = "1" -> 1 [] s = "2" -> 2 [] s = "10" -> 10 [] OTHER -> -1
IsNumeric(s) == s \in {"1", "2", "10"}
CanCastNumber(x) == x.t \in {"num", "null"} \/ (x.t = "str" /\ IsNumeric(x.v))
CastNumber(x) == IF x.t = "str" THEN Num(ParseNumber(x.v)) ELSE x

\* Boolean paths: true / false and their usual spellings, anything else is a CastError
CanCastBoolean(x) == x.t \in {"bool", "null"} \/ (x.t = "str" /\ x.v \in {"true", "false"})
CastBoolean(x) == IF x.t = "str" THEN Bool(x.v = "true") ELSE x

DimensionPaths == {"length", "width", "height", "weight", "boxes"}

CanCastDimensions(d) == \A f \in DimensionPaths : CanCastNumber(d[f])
CastDimensions(d) == [f \in DimensionPaths |-> CastNumber(d[f])]

CanCastPickupPoint(pp) == CanCastBoolean(pp.parcelLocker)
CastPickupPoint(pp) == [pp EXCEPT !.parcelLocker = CastBoolean(@)]

\* an update that resets the user-set paths its $set leaves out
ApplySetResetting(doc, set) ==
    [f \in SchemaPaths |->
        IF f \in DOMAIN set THEN set[f]
        ELSE IF f = "dimensions" THEN [length |-> Null, width |-> Null, height |-> Null,
                                       weight |-> Null, boxes |-> Null]
        ELSE IF f = "pickupPoint" THEN [t |-> "undefined"]
        ELSE IF f = "isFulfilled" THEN FALSE
        ELSE doc[f]]

\* strict mode: a $set reaches the schema's paths only
ApplySet(doc, set) ==
    [f \in SchemaPaths |-> IF f \in DOMAIN set THEN set[f] ELSE doc[f]]

\* the document an upsert inserts: the $set over the schema defaults
\* (setDefaultsOnInsert)
NewDoc(set) ==
    ApplySet([shopifyId |-> set.shopifyId,
              orderNumber |-> Undefined,
              line_items |-> << >>,
              shipping_address |-> Undefined,
              shipping_lines |-> << >>,
              created_at |-> 0,
              dimensions |-> DefaultDimensions,
              pickupPoint |-> Undefined,
              isFulfilled |-> FALSE,
              shipping_method |-> Undefined], set)

\* the webhook's $set after casting: orderNumber is a String path
CastOrder(order) == [order EXCEPT !.orderNumber = Str(toString(@))]

\* ------------------------------------------------------------ collection
Matches(store, shopifyId) == {i \in 1..Len(store) : store[i].shopifyId = shopifyId}

\* findOne: the first matching document's position, 0 for none
FindOne(store, shopifyId) ==
    IF Matches(store, shopifyId) = {} THEN 0
    ELSE CHOOSE i \in Matches(store, shopifyId) :
            \A j \in Matches(store, shopifyId) : i <= j

\* the collection without its unique index
NoUniqueIndex(store, shopifyId) == FALSE

\* shopifyId: { unique: true }: an insert of a present key is a duplicate-key error
DuplicateKey(store, shopifyId) == Matches(store, shopifyId) # {}

\* an update that writes nothing to a document that exists ($setOnInsert)
UpdateAtOnInsertOnly(store, i, set) == store

UpdateAt(store, i, set) == [store EXCEPT ![i] = ApplySet(@, set)]

\* -------------------------------------------------------- request state
Slots == 1..MaxInFlight

NoRequest == [hmac |-> Undefined, rawBody |-> Undefined]

\* one webhook request: where its handler stands, what it holds, what it did
\* (calls: catalog calls issued; writes: documents written; err: the error caught)
Idle ==
    [pc |-> "idle", req |-> NoRequest, cat |-> Undefined, order |-> Undefined,
     found |-> 0, status |-> 0, calls |-> 0, writes |-> 0, err |-> "none"]

\* req.body: express.json's parse of the raw body
Body(req) == req.rawBody.json

Finished(slot, code, err) == [slot EXCEPT !.pc = "done", !.status = code, !.err = err]

\* ------------------------------------------- POST /api/webhook/orders
\* verifyWebhook, then the handler up to the catalog fetch
Received(req, secret) ==
    LET fresh == [Idle EXCEPT !.req = req]
    IN  IF ~verifyWebhook(req, secret) THEN Finished(fresh, 401, "Unauthorized")
        ELSE IF ThrowsBeforeFetch(Body(req)) THEN Finished(fresh, 500, "TypeError")
        ELSE [fresh EXCEPT !.pc = "fetch", !.calls = 1]

\* a failed catalog call swallowed, the order stored without product data
RepliedSwallowing(slot, outcome, time) ==
    LET webhookOrder == Body(slot.req)
        reply == CatalogAnswer(outcome, productIds(webhookOrder))
        got == [slot EXCEPT !.cat = reply]
    IN  IF ThrowsInTransform(webhookOrder) THEN Finished(got, 500, "TypeError")
        ELSE [got EXCEPT !.pc = "upsert",
                         !.order = transformedOrder(webhookOrder,
                                        IF reply.kind = "json" THEN reply ELSE ErrorPayload,
                                        time)]

\* the catalog call settles; the handler runs on to the upsert
Replied(slot, outcome, time) ==
    LET webhookOrder == Body(slot.req)
        reply == CatalogAnswer(outcome, productIds(webhookOrder))
        got == [slot EXCEPT !.cat = reply]
    IN  IF reply.kind = "network_error" THEN Finished(got, 500, "FetchError")
        ELSE IF reply.kind = "parse_error" THEN Finished(got, 500, "SyntaxError")
        ELSE IF ThrowsInTransform(webhookOrder) THEN Finished(got, 500, "TypeError")
        ELSE [got EXCEPT !.pc = "upsert",
                         !.order = transformedOrder(webhookOrder, reply, time)]

\* a filter that matches no document
LookedNowhere(slot, store) == [slot EXCEPT !.pc = "write", !.found = 0]

\* findOneAndUpdate({ shopifyId }, ..., { upsert: true }): the server looks the key up
Looked(slot, store) ==
    [slot EXCEPT !.pc = "write", !.found = FindOne(store, slot.order.shopifyId)]

\* ... and updates the document found, or inserts one; an insert that meets the
\* unique index either fails (500) or is retried by the server as an update
Written(slot, store, retried) ==
    LET set == CastOrder(slot.order)
        wrote == Finished([slot EXCEPT !.writes = @ + 1], 200, "none")
    IN  IF slot.found > 0
        THEN [slot |-> wrote, db |-> UpdateAt(store, slot.found, set)]
        ELSE IF DuplicateKey(store, set.shopifyId)
        THEN IF retried
             THEN [slot |-> wrote,
                   db |-> UpdateAt(store, FindOne(store, set.shopifyId), set)]
             ELSE [slot |-> Finished(slot, 500, "E11000"), db |-> store]
        ELSE [slot |-> wrote, db |-> Append(store, NewDoc(set))]

\* the answer sent for a finished request
WebhookAnswer(r, slot) == [op |-> "webhook", slot |-> r, request |-> slot]

\* the handler step of slot r that leaves it as `slot`: a finished request is
\* answered and its slot is free again
Step(r, slot) ==
    IF slot.pc = "done"
    THEN /\ reqs' = [reqs EXCEPT ![r] = Idle]
         /\ resp' = WebhookAnswer(r, slot)
    ELSE /\ reqs' = [reqs EXCEPT ![r] = slot]
         /\ resp' = resp

Receive(r, req) ==
    /\ reqs[r].pc = "idle"
    /\ Step(r, Received(req, env))
    /\ UNCHANGED <<env, db, now, ordersStore>>

CatalogReply(r, outcome) ==
    /\ reqs[r].pc = "fetch"
    /\ Step(r, Replied(reqs[r], outcome, now))
    /\ UNCHANGED <<env, db, now, ordersStore>>

UpsertFind(r) ==
    /\ reqs[r].pc = "upsert"
    /\ Step(r, Looked(reqs[r], db))
    /\ UNCHANGED <<env, db, now, ordersStore>>

UpsertWrite(r) ==
    /\ reqs[r].pc = "write"
    /\ \E retried \in BOOLEAN :
        LET w == Written(reqs[r], db, retried)
        IN  /\ db' = w.db
            /\ Step(r, w.slot)
    /\ UNCHANGED <<env, now, ordersStore>>

\* a request handled with no other request in between
Handled(req, secret, outcome, store, time) ==
    LET a == Received(req, secret)
        b == IF a.pc = "fetch" THEN Replied(a, outcome, time) ELSE a
        c == IF b.pc = "upsert" THEN Looked(b, store) ELSE b
    IN  IF c.pc = "write" THEN Written(c, store, FALSE) ELSE [slot |-> c, db |-> store]

Webhook(req, outcome) ==
    /\ \A r \in Slots : reqs[r].pc = "idle"
    /\ LET h == Handled(req, env, outcome, db, now)
       IN  /\ db' = h.db
           /\ resp' = WebhookAnswer(1, h.slot)
    /\ UNCHANGED <<env, reqs, now, ordersStore>>

\* ---------------------------------------------------- other endpoints
EndpointAnswer(op, orderId, code) ==
    [op |-> op, orderId |-> orderId, status |-> code,
     existed |-> CanToString(orderId) /\ Matches(db, toString(orderId)) # {}]

\* --------------------------------------- POST /api/update-measurements
UpdateMeasurements(orderId, dimensions, method) ==
    /\ IF ~CanToString(orderId) \/ ~CanCastDimensions(dimensions)
       THEN /\ db' = db
            /\ resp' = EndpointAnswer("update-measurements", orderId, 500)
       ELSE LET i == FindOne(db, toString(orderId))
            IN  IF i = 0
                THEN /\ db' = db
                     /\ resp' = EndpointAnswer("update-measurements", orderId, 404)
                ELSE /\ db' = UpdateAt(db, i,
                                [dimensions |-> CastDimensions(dimensions),
                                 shipping_method |-> method])
                     /\ resp' = EndpointAnswer("update-measurements", orderId, 200)
    /\ UNCHANGED <<env, reqs, now, ordersStore>>

\* --------------------------------------- POST /api/update-pickup-point
UpdatePickupPoint(orderId, pickupPoint) ==
    /\ IF ~CanToString(orderId) \/ ~CanCastPickupPoint(pickupPoint)
       THEN /\ db' = db
            /\ resp' = EndpointAnswer("update-pickup-point", orderId, 500)
       ELSE LET i == FindOne(db, toString(orderId))
            IN  IF i = 0
                THEN /\ db' = db
                     /\ resp' = EndpointAnswer("update-pickup-point", orderId, 404)
                ELSE /\ db' = UpdateAt(db, i, [pickupPoint |-> CastPickupPoint(pickupPoint)])
                     /\ resp' = EndpointAnswer("update-pickup-point", orderId, 200)
    /\ UNCHANGED <<env, reqs, now, ordersStore>>

\* -------------------------------------------- POST /api/fulfill-order
\* lookup: how the fulfillment-orders listing ends; mutation: how fulfillmentCreate
\* ends ("unsent" when the handler never gets that far)

\* postData.data.fulfillmentCreate.userErrors
UserErrors(mutation) ==
    IF mutation = "userErrors" THEN <<"Fulfillment order is not open">> ELSE << >>

\* the local update made whenever the mutation was answered at all
FulfillmentAnswered(mutation) == mutation \in {"SUCCESS", "userErrors"}

\* status === 'SUCCESS'
FulfillmentSucceeded(mutation) == mutation = "SUCCESS"

\* the answer, with the upstream calls the handler issued for it
FulfillAnswer(orderId, code, lookup, mutation, error) ==
    [op |-> "fulfill-order", orderId |-> orderId, status |-> code,
     existed |-> CanToString(orderId) /\ Matches(db, toString(orderId)) # {},
     lookup |-> lookup, lookups |-> 1,
     mutation |-> mutation, mutations |-> IF mutation = "unsent" THEN 0 ELSE 1,
     error |-> error]

FulfillOrder(orderId, lookup, mutation) ==
    /\ IF lookup = "network_error"
       THEN /\ db' = db
            /\ resp' = FulfillAnswer(orderId, 500, lookup, "unsent", <<"FetchError">>)
       ELSE IF lookup = "none"
       THEN /\ db' = db
            /\ resp' = FulfillAnswer(orderId, 400, lookup, "unsent",
                                     <<"No fulfillment order found">>)
       ELSE IF mutation = "network_error"
       THEN /\ db' = db
            /\ resp' = FulfillAnswer(orderId, 500, lookup, mutation, <<"FetchError">>)
       ELSE IF FulfillmentSucceeded(mutation)
       THEN IF ~CanToString(orderId)
            THEN /\ db' = db
                 /\ resp' = FulfillAnswer(orderId, 500, lookup, mutation, <<"TypeError">>)
            ELSE LET i == FindOne(db, toString(orderId))
                 IN  /\ db' = IF i = 0 THEN db
                              ELSE UpdateAt(db, i, [isFulfilled |-> TRUE, fulfilledAt |-> now])
                     /\ resp' = FulfillAnswer(orderId, 200, lookup, mutation, << >>)
       ELSE IF mutation = "no_data"
       THEN /\ db' = db
            /\ resp' = FulfillAnswer(orderId, 500, lookup, mutation, <<"TypeError">>)
       ELSE /\ db' = db
            /\ resp' = FulfillAnswer(orderId, 400, lookup, mutation, UserErrors(mutation))
    /\ UNCHANGED <<env, reqs, now, ordersStore>>

\* ----------- POST /api/create-posti-service-point, /api/create-posti-home-delivery
ServicePointId == "PO2103"
HomeDeliveryId == "PO2104"

\* the statements that throw a TypeError while shipmentData is built: a member
\* read of a missing orderData / shipping_address / dimensions, toString() of a
\* missing boxes or weight
ThrowsInShipment(dimensions, orderData) ==
    \/ orderData.t # "obj"
    \/ orderData.shipping_address.t # "obj"
    \/ dimensions.t # "obj"
    \/ ~CanToString(dimensions.boxes)
    \/ ~CanToString(dimensions.weight)

shipmentData(service, dimensions, orderData) ==
    [t |-> "obj",
     receiver |->
        [name |-> orderData.shipping_address.name,
         address1 |-> orderData.shipping_address.address1,
         address2 |-> OrElse(orderData.shipping_address.address2, Str("")),
         zipcode |-> orderData.shipping_address.zip,
         city |-> orderData.shipping_address.city,
         country |-> orderData.shipping_address.country_code,
         phone |-> OrElse(orderData.shipping_address.phone, Str("")),
         email |-> Str("")],
     service |-> [id |-> service],
     parcels |-> <<[copies |-> toString(dimensions.boxes),
                    weight |-> toString(dimensions.weight)]>>]

\* the answer, with what was sent to the carrier (calls: requests issued)
ShipmentAnswer(service, dimensions, orderData, code, calls, sent, carrier, error) ==
    [op |-> "create-shipment", service |-> service, dimensions |-> dimensions,
     orderData |-> orderData, status |-> code, calls |-> calls, sent |-> sent,
     carrier |-> carrier, error |-> error]

\* carrier: how the one request to the carrier ends
CreateShipment(service, dimensions, orderData, carrier) ==
    /\ resp' =
        IF ThrowsInShipment(dimensions, orderData)
        THEN ShipmentAnswer(service, dimensions, orderData, 500, 0, Undefined,
                            "unsent", "TypeError")
        ELSE LET sent == shipmentData(service, dimensions, orderData)
                 answer(code, error) ==
                    ShipmentAnswer(service, dimensions, orderData, code, 1, sent,
                                   carrier.kind, error)
             IN  CASE carrier.kind = "network_error" -> answer(500, "FetchError")
                   [] carrier.kind = "parse_error" -> answer(500, "SyntaxError")
                   [] carrier.kind = "rejected" -> answer(500, carrier.message)
                   [] OTHER -> answer(200, "none")
    /\ UNCHANGED <<env, db, reqs, now, ordersStore>>

\* ------------------------------------------------------ GET /api/orders
ListLimit == 50

\* document j comes before document i under .sort({ created_at: -1 }); the order
\* of documents with equal created_at is not defined by the sort: `ties` is the
\* order the server happens to produce ("natural": as stored, "reverse")
Before(store, j, i, ties) ==
    \/ store[j].created_at > store[i].created_at
    \/ /\ store[j].created_at = store[i].created_at
       /\ IF ties = "natural" THEN j < i ELSE j > i

SortByCreatedAtDesc(store, ties) ==
    LET rank == [i \in 1..Len(store) |->
                    1 + Cardinality({j \in 1..Len(store) : Before(store, j, i, ties)})]
    IN  [k \in 1..Len(store) |-> store[CHOOSE i \in 1..Len(store) : rank[i] = k]]

\* .limit(n) / .slice(0, n)
Slice(list, n) == SubSeq(list, 1, IF Len(list) < n THEN Len(list) ELSE n)

ListAnswer(revision, orders) ==
    [op |-> "list-orders", revision |-> revision, status |-> 200, orders |-> orders]

ListOrders(ties) ==
    /\ resp' = ListAnswer("persisted", Slice(SortByCreatedAtDesc(db, ties), ListLimit))
    /\ UNCHANGED <<env, db, reqs, now, ordersStore>>

\* ------------------------------------------------- in-memory revisions
\* (the two revisions differ in the members they copy, not in how they store)
KeptOnPrepend == 49

\* new Date(x).toISOString(): a RangeError when x is no date
CanParseDate(x) == x.t = "num"
toISOString(x) == Str(NumToStr(x.v) \o "Z")

ThrowsInMemory(order) ==
    \/ order.line_items.t # "arr"
    \/ order.shipping_lines.t # "arr"
    \/ ~CanParseDate(order.created_at)

transformedOrderInMemory(order) ==
    [id |-> order.id,
     order_number |-> order.order_number,
     line_items |->
        [i \in 1..Len(order.line_items.v) |->
            [title |-> order.line_items.v[i].title,
             product_id |-> order.line_items.v[i].product_id,
             variant_id |-> order.line_items.v[i].variant_id,
             requires_shipping |-> order.line_items.v[i].requires_shipping]],
     shipping_address |->
        [name |-> AddressField(order, "name"),
         address1 |-> AddressField(order, "address1"),
         city |-> AddressField(order, "city"),
         zip |-> AddressField(order, "zip"),
         country_code |-> AddressField(order, "country_code"),
         phone |-> AddressField(order, "phone")],
     shipping_lines |->
        [i \in 1..Len(order.shipping_lines.v) |->
            [title |-> order.shipping_lines.v[i].title,
             code |-> order.shipping_lines.v[i].code]],
     created_at |-> toISOString(order.created_at)]

InMemoryAnswer(req, code) == [op |-> "webhook-in-memory", req |-> req, status |-> code]

\* POST /api/webhook/orders
WebhookInMemory(req) ==
    /\ IF ~verifyWebhook(req, env)
       THEN /\ ordersStore' = ordersStore
            /\ resp' = InMemoryAnswer(req, 401)
       ELSE IF ThrowsInMemory(Body(req))
       THEN /\ ordersStore' = ordersStore
            /\ resp' = InMemoryAnswer(req, 500)
       ELSE /\ ordersStore' = <<transformedOrderInMemory(Body(req))>>
                                \o Slice(ordersStore, KeptOnPrepend)
            /\ resp' = InMemoryAnswer(req, 200)
    /\ UNCHANGED <<env, db, reqs, now>>

\* GET /api/orders
ListOrdersInMemory ==
    /\ resp' = ListAnswer("in-memory", ordersStore)
    /\ UNCHANGED <<env, db, reqs, now, ordersStore>>

\* time passes
Tick ==
    /\ now < MaxTime
    /\ now' = now + 1
    /\ UNCHANGED <<env, db, reqs, resp, ordersStore>>

\* ------------------------------------------------------------- inputs
Item(product_id, title, quantity) ==
    [title |-> Str(title), product_id |-> product_id, variant_id |-> Num(product_id * 10),
     requires_shipping |-> Bool(TRUE), current_quantity |-> quantity]

Widget == Item(55, "Widget", 2)
Gadget == Item(56, "Gadget", 1)

CatalogProducts == {Gid(55), Gid(56)}

Address ==
    [t |-> "obj", name |-> Str("A B"), address1 |-> Str("Katu 1"), address2 |-> Undefined,
     city |-> Str("Helsinki"), zip |-> Str("00100"), country_code |-> Str("FI"),
     phone |-> Undefined]

ShippingLine(title) == [title |-> Str(title), code |-> Str("std")]

Payload(id, order_number, line_items, shipping_address, shipping_lines) ==
    [id |-> id, order_number |-> Num(order_number), line_items |-> line_items,
     shipping_address |-> shipping_address, shipping_lines |-> shipping_lines]

RawBody(payload) == [t |-> "buf", json |-> payload]

\* a request whose sender signed its body with `key`
Signed(key, payload) ==
    [hmac |-> Hmac(key, RawBody(payload)), rawBody |-> RawBody(payload)]

OrderIds == {Num(1), Str("1"), Num(2)}

\* two orders, each in two versions
StorePayloads ==
    {Payload(id, 1001, Arr(<<Widget>>), Address, Arr(<<ShippingLine(PickupPointLabel)>>)) :
        id \in OrderIds}
    \cup
    {Payload(id, 1002, Arr(<<Widget, Gadget>>), Undefined, Arr(<< >>)) : id \in OrderIds}

BasePayload ==
    Payload(Num(1), 1001, Arr(<<Widget>>), Address, Arr(<<ShippingLine(PickupPointLabel)>>))

OtherPayload ==
    Payload(Num(1), 1001, Arr(<<Widget, Widget>>), Address, Arr(<<ShippingLine(PickupPointLabel)>>))

\* requests verifyWebhook has to turn away
ForgedRequests ==
    {[hmac |-> Undefined, rawBody |-> RawBody(BasePayload)],
     [hmac |-> Hmac("k1", RawBody(OtherPayload)), rawBody |-> RawBody(BasePayload)],
     [hmac |-> Hmac("k1", RawBody(BasePayload)), rawBody |-> Undefined],
     Signed("k2", BasePayload)}

\* how the catalog call ends: a failure, an error body, or the nodes of the
\* products the catalog knows
CatalogOutcomes ==
    {[kind |-> k, known |-> {}] : k \in {"network_error", "parse_error", "errors"}}
    \cup {[kind |-> "nodes", known |-> known] : known \in SUBSET CatalogProducts}

Measurements ==
    {[length |-> Num(10), width |-> Num(20), height |-> Num(30), weight |-> Num(2),
      boxes |-> Str("1")],
     [length |-> Str("abc"), width |-> Num(20), height |-> Num(30), weight |-> Num(2),
      boxes |-> Num(1)]}

PickupPoints ==
    {[t |-> "obj", pupCode |-> Str("P1"), publicName |-> Str("Posti 1"),
      parcelLocker |-> Bool(TRUE)],
     [t |-> "obj", pupCode |-> Str("P1"), publicName |-> Str("Posti 1"),
      parcelLocker |-> Str("maybe")]}

Methods == {"service_point", "home_delivery"}

EndpointIds == OrderIds \cup {Num(3)}

\* how the two upstream calls of a fulfillment end; the mutation is sent only
\* once the lookup has found a fulfillment order
FulfillOutcomes ==
    {[lookup |-> l, mutation |-> "unsent"] : l \in {"network_error", "none"}}
    \cup {[lookup |-> "found", mutation |-> m] :
            m \in {"network_error", "SUCCESS", "userErrors", "no_data"}}

\* what a create-shipment request carries: the order's address ...
ShipAddresses ==
    {Address,
     [Address EXCEPT !.name = Undefined],
     [Address EXCEPT !.zip = Undefined],
     Undefined}

OrderDataChoices == {[t |-> "obj", shipping_address |-> a] : a \in ShipAddresses}

\* ... and its dimensions, measured or not
Parcel(boxes, weight) ==
    [t |-> "obj", length |-> Num(10), width |-> Num(20), height |-> Num(30),
     weight |-> weight, boxes |-> boxes]

ShipDimensions ==
    {Parcel(Num(1), Num(2)), Parcel(Undefined, Num(2)), Parcel(Num(1), Undefined),
     Parcel(Null, Null), Undefined}

ShipServices == {ServicePointId, HomeDeliveryId}

\* how the request to the carrier ends: no answer, a body that does not parse,
\* a non-success status with the carrier's message, or the shipment created
CarrierOutcomes ==
    {[kind |-> "network_error", message |-> ""],
     [kind |-> "parse_error", message |-> ""],
     [kind |-> "rejected", message |-> "Invalid zipcode"],
     [kind |-> "created", message |-> ""]}

\* box counts a measurement form can send
BoxCounts == {Num(2), Num(0), Str("1")}

ShipMeasurements ==
    {[length |-> Num(10), width |-> Num(20), height |-> Num(30), weight |-> Num(2),
      boxes |-> b] : b \in BoxCounts}

ShipIds == {Num(1), Num(3)}

\* a payload with the order's creation date, which the in-memory revisions read
Dated(payload, created_at) ==
    [f \in DOMAIN payload \cup {"created_at"} |->
        IF f = "created_at" THEN created_at ELSE payload[f]]

\* the n-th order of the shop
ListPayload(n) ==
    Dated(Payload(Num(n), 1000 + n, Arr(<<Widget>>), Address, Arr(<< >>)), Num(n))

\* the orders ingested so far, when the shop sends order 1, 2, 3, ... once each
IngestedInMemory == IF ordersStore = << >> THEN 0 ELSE ordersStore[1].id.v
IngestedPersisted == Len(db)

SortTies == {"natural", "reverse"}

\* ------------------------------------------------------ specifications
NoAnswer == [op |-> "none"]

Start(secret) ==
    /\ env = secret
    /\ db = << >>
    /\ reqs = [r \in Slots |-> Idle]
    /\ resp = NoAnswer
    /\ now = 0
    /\ ordersStore = << >>

\* Spec: the store's endpoints, requests served one at a time
StoreRequests == {Signed("k1", p) : p \in StorePayloads}

StoreOutcomes == {[kind |-> "nodes", known |-> {Gid(55)}]}

Init == Start(Secret("k1"))

Next ==
    \/ \E req \in StoreRequests, outcome \in StoreOutcomes : Webhook(req, outcome)
    \/ \E id \in EndpointIds, d \in Measurements, m \in Methods :
            UpdateMeasurements(id, d, m)
    \/ \E id \in EndpointIds, pp \in PickupPoints : UpdatePickupPoint(id, pp)
    \/ \E id \in EndpointIds, o \in FulfillOutcomes : FulfillOrder(id, o.lookup, o.mutation)

Spec == Init /\ [][Next]_vars

\* SpecConc: webhook requests handled concurrently, interleaved at their awaits
\* (two spellings of one order id: both are stored under "1")
ConcRequests == {Signed("k1", Payload(id, 1001, Arr(<<Widget>>), Address, Arr(<< >>))) :
                    id \in {Num(1), Str("1")}}

ConcOutcomes == StoreOutcomes \cup {[kind |-> "network_error", known |-> {}]}

NextConc ==
    \/ \E r \in Slots, req \in ConcRequests : Receive(r, req)
    \/ \E r \in Slots, outcome \in ConcOutcomes : CatalogReply(r, outcome)
    \/ \E r \in Slots : UpsertFind(r)
    \/ \E r \in Slots : UpsertWrite(r)
    \/ Tick

SpecConc == Init /\ [][NextConc]_vars

\* SpecIngest: one webhook at a time, over the shapes a request, its payload and
\* the catalog's answer can take, under each configuration of the secret
Secrets == {NoSecret, Secret(""), Secret("k1")}

LineItemChoices == {Arr(<< >>), Arr(<<Widget>>), Arr(<<Widget, Gadget>>), Undefined}

AddressChoices == {Address, Undefined}

ShippingLineChoices ==
    {Arr(<<ShippingLine(PickupPointLabel)>>),
     Arr(<<ShippingLine(HomeDeliveryLabel)>>),
     Arr(<<ShippingLine("Express")>>),
     Arr(<<ShippingLine("standard - pickup point")>>),
     Arr(<<ShippingLine("")>>),
     Arr(<<ShippingLine(HomeDeliveryLabel), ShippingLine(PickupPointLabel)>>),
     Arr(<< >>),
     Undefined}

\* every line-item list with the usual address and shipping line, and every
\* address with every shipping-line list
IngestPayloads ==
    {Payload(Num(1), 1001, li, Address, Arr(<<ShippingLine(PickupPointLabel)>>)) :
        li \in LineItemChoices}
    \cup
    {Payload(Num(1), 1001, Arr(<<Widget, Gadget>>), a, sl) :
        a \in AddressChoices, sl \in ShippingLineChoices}

IngestRequests ==
    {Signed("k1", p) : p \in IngestPayloads}
    \cup {Signed("", BasePayload)}
    \cup ForgedRequests

InitIngest == \E secret \in Secrets : Start(secret)

NextIngest ==
    \E req \in IngestRequests, outcome \in CatalogOutcomes : Webhook(req, outcome)

SpecIngest == InitIngest /\ [][NextIngest]_vars

\* SpecShip: an order on its way out: ingested, measured, its shipment
\* created with the carrier, fulfilled upstream
ShipRequests == {Signed("k1", BasePayload)}

NextShip ==
    \/ \E req \in ShipRequests, outcome \in CatalogOutcomes : Webhook(req, outcome)
    \/ \E id \in ShipIds, d \in ShipMeasurements, m \in Methods :
            UpdateMeasurements(id, d, m)
    \/ \E service \in ShipServices, d \in ShipDimensions, o \in OrderDataChoices,
          carrier \in CarrierOutcomes : CreateShipment(service, d, o, carrier)
    \/ \E id \in ShipIds, o \in FulfillOutcomes : FulfillOrder(id, o.lookup, o.mutation)

SpecShip == Init /\ [][NextShip]_vars

\* SpecList: a deployment of the persisted revision, or of an in-memory one, is
\* sent the shop's orders one after another, each once, and is asked for its list
NextList ==
    \/ \E n \in 1..MaxOrders, outcome \in StoreOutcomes :
            /\ ordersStore = << >>
            /\ n = IngestedPersisted + 1
            /\ Webhook(Signed("k1", ListPayload(n)), outcome)
    \/ \E n \in 1..MaxOrders :
            /\ db = << >>
            /\ n = IngestedInMemory + 1
            /\ WebhookInMemory(Signed("k1", ListPayload(n)))
    \/ Tick
    \/ \E ties \in SortTies : ListOrders(ties)
    \/ ListOrdersInMemory

SpecList == Init /\ [][NextList]_vars

\* SpecMem: an in-memory deployment sent webhooks for a few orders, in any order
\* and any number of times
MemRequests ==
    {Signed("k1", Dated(Payload(id, 1001, Arr(<<Widget>>), Address, Arr(<< >>)), Num(1))) :
        id \in OrderIds}
    \cup {Signed("k1", Dated(BasePayload, Undefined)),
          Signed("k2", Dated(BasePayload, Num(1)))}

NextMem ==
    \/ \E req \in MemRequests :
            /\ Len(ordersStore) < MaxStored
            /\ WebhookInMemory(req)
    \/ ListOrdersInMemory

SpecMem == Init /\ [][NextMem]_vars

\* ------------------------------------------------------------ properties
IsWebhookAnswer == resp.op = "webhook"

\* the request the last answer was for, and the payload it carried
Answered == resp.request
AnsweredOrder == Body(resp.request.req)

\* the last answer closed an ingestion that got as far as the upsert
ReachedUpsert == IsWebhookAnswer /\ Answered.err \in {"none", "E11000"}

Stored(shopifyId) == db[FindOne(db, shopifyId)]

\* C1: at most one stored order per shopifyId, whatever endpoints were called in
\* whatever order; an ingestion for an id that is already stored is answered 200
\* and leaves that one record
C1_OneOrderPerShopifyId ==
    /\ \A i, j \in 1..Len(db) : db[i].shopifyId = db[j].shopifyId => i = j
    /\ ReachedUpsert =>
        /\ Answered.status = 200
        /\ Cardinality(Matches(db, Answered.order.shopifyId)) = 1

C1_Witness ==
    /\ IsWebhookAnswer
    /\ Answered.status = 200
    /\ Answered.found > 0
    /\ Len(db) = 2
    /\ \E i \in 1..Len(db) : db[i].dimensions # DefaultDimensions

\* C2: webhook requests for one order id whose lookups and writes interleave in
\* any order never leave two records with that id, and once one of them has
\* reached its write there is exactly one
C2_ConcurrentUpsertsOneRecord ==
    /\ \A k \in {toString(id) : id \in OrderIds} : Cardinality(Matches(db, k)) <= 1
    /\ \A r \in Slots :
        (reqs[r].pc = "write" /\ reqs[r].found > 0) =>
            Cardinality(Matches(db, reqs[r].order.shopifyId)) = 1
    /\ ReachedUpsert => Cardinality(Matches(db, Answered.order.shopifyId)) = 1

\* both requests looked the key up before either wrote: the second insert met
\* the unique index
C2_Witness ==
    /\ IsWebhookAnswer
    /\ Answered.err = "E11000"
    /\ Answered.found = 0
    /\ \A r \in Slots : reqs[r].pc = "idle"
    /\ Cardinality(Matches(db, Answered.order.shopifyId)) = 1

\* what the claim calls a request to turn away: no secret configured, no
\* signature header, or a header that is not the HMAC of the raw body
Rejectable(req, secret) ==
    \/ ~secret.set
    \/ req.hmac.t = "undefined"
    \/ req.hmac # Hmac(secret.key, req.rawBody)

\* C3: a request to turn away is answered 401, no catalog call is made for it
\* and the store is left as it was
C3_RejectedBeforeAnySideEffect ==
    [][(resp'.op = "webhook" /\ Rejectable(resp'.request.req, env)) =>
            /\ resp'.request.status = 401
            /\ resp'.request.calls = 0
            /\ resp'.request.writes = 0
            /\ db' = db]_vars

C3_Witness ==
    /\ IsWebhookAnswer
    /\ env = Secret("k1")
    /\ Answered.req.hmac = Hmac("k1", RawBody(OtherPayload))
    /\ Answered.req.rawBody = RawBody(BasePayload)
    /\ Answered.status = 401
    /\ Len(db) = 1

IsUpdateAnswer == resp.op \in {"update-measurements", "update-pickup-point"}

\* C4: a measurement or pickup-point update for an id with no stored record is
\* answered 404 and creates no record, whatever the payload
C4_UnknownIdIsNotFound ==
    (IsUpdateAnswer /\ ~resp.existed) =>
        /\ resp.status = 404
        /\ Matches(db, toString(resp.orderId)) = {}

\* the paths the webhook's $set writes
WebhookPaths ==
    {"shopifyId", "orderNumber", "line_items", "shipping_address", "shipping_lines",
     "created_at", "shipping_method"}

C6_CatalogFailureStoresNothing ==
    [][(resp'.op = "webhook" /\ resp'.request.cat \in {NetworkError, ParseError}) =>
            /\ resp'.request.status = 500
            /\ resp'.request.writes = 0
            /\ db' = db]_vars

C6_Witness ==
    /\ IsWebhookAnswer
    /\ Answered.cat = ParseError
    /\ Answered.calls = 1
    /\ Answered.status = 500
    /\ Len(db) = 1

\* C7: a catalog answer that is an error body with no product nodes fails the
\* ingestion: an error status, and nothing stored
C7_ErrorPayloadFailsIngestion ==
    (IsWebhookAnswer /\ Answered.cat = ErrorPayload) =>
        /\ Answered.status >= 400
        /\ Answered.writes = 0

\* the payload carries the members the handler reads unguarded
WellFormed(webhookOrder) ==
    /\ webhookOrder.line_items.t = "arr"
    /\ webhookOrder.shipping_lines.t = "arr"
    /\ CanToString(webhookOrder.id)

\* the products a catalog answer carries a node for
Enriched(productData) ==
    {productData.data.nodes.v[i].id :
        i \in {j \in 1..Len(productData.data.nodes.v) :
                    productData.data.nodes.v[j].t = "obj"}}

\* C8: with a successful catalog answer the order is stored and answered 200
\* with every line item of the payload; a line item whose product the answer
\* lacks is stored with product_data null, any other with its product's node
C8_AbsentProductIsNull ==
    (/\ IsWebhookAnswer
     /\ Answered.calls = 1
     /\ Answered.cat.kind = "json"
     /\ Answered.cat.data.t = "obj"
     /\ WellFormed(AnsweredOrder)) =>
        LET items == AnsweredOrder.line_items.v
            doc == Stored(toString(AnsweredOrder.id))
        IN  /\ Answered.status = 200
            /\ Matches(db, toString(AnsweredOrder.id)) # {}
            /\ Len(doc.line_items) = Len(items)
            /\ \A i \in 1..Len(items) :
                    /\ doc.line_items[i].title = items[i].title
                    /\ doc.line_items[i].quantity = items[i].current_quantity
                    /\ doc.line_items[i].product_id = Gid(items[i].product_id)
                    /\ IF Gid(items[i].product_id) \in Enriched(Answered.cat)
                       THEN doc.line_items[i].product_data = ProductNode(Gid(items[i].product_id))
                       ELSE doc.line_items[i].product_data = Null
            /\ doc.shipping_address.city = AddressField(AnsweredOrder, "city")

\* two line items, the catalog knows the second only
C8_Witness ==
    /\ IsWebhookAnswer
    /\ Answered.status = 200
    /\ Answered.cat.kind = "json"
    /\ Answered.cat.data.t = "obj"
    /\ Enriched(Answered.cat) = {Gid(56)}
    /\ Len(Stored(toString(AnsweredOrder.id)).line_items) = 2
    /\ Stored(toString(AnsweredOrder.id)).line_items[1].product_data = Null
    /\ Stored(toString(AnsweredOrder.id)).line_items[2].product_data # Null

AddressPaths == {"name", "address1", "address2", "city", "zip", "country_code", "phone"}

\* C9: a payload without shipping_address and / or without shipping_lines is
\* ingested all the same: no 500, the address fields absent, no shipping lines,
\* the default shipping method
C9_TransformIsTotal ==
    (/\ IsWebhookAnswer
     /\ Answered.calls = 1
     /\ Answered.cat.kind = "json"
     /\ (AnsweredOrder.shipping_address.t = "undefined"
            \/ AnsweredOrder.shipping_lines.t = "undefined")) =>
        LET doc == Stored(toString(AnsweredOrder.id))
        IN  /\ Answered.status = 200
            /\ Matches(db, toString(AnsweredOrder.id)) # {}
            /\ AnsweredOrder.shipping_address.t = "undefined" =>
                    \A f \in AddressPaths : doc.shipping_address[f] = Undefined
            /\ AnsweredOrder.shipping_lines.t = "undefined" =>
                    /\ doc.shipping_lines = << >>
                    /\ doc.shipping_method = "home_delivery"

\* C10: the order is stored with service_point exactly when the title of the
\* payload's (first) shipping line is the pickup-point label, with
\* home_delivery for any other title, an empty title or no shipping line
C10_ShippingMethodFromTitle ==
    (IsWebhookAnswer /\ Answered.status = 200) =>
        LET lines == AnsweredOrder.shipping_lines.v
            doc == Stored(toString(AnsweredOrder.id))
        IN  doc.shipping_method =
                IF Len(lines) > 0 /\ lines[1].title = Str(PickupPointLabel)
                THEN "service_point"
                ELSE "home_delivery"

C10_Witness ==
    /\ IsWebhookAnswer
    /\ Answered.status = 200
    /\ Len(AnsweredOrder.shipping_lines.v) = 1
    /\ AnsweredOrder.shipping_lines.v[1].title = Str(PickupPointLabel)
    /\ Stored(toString(AnsweredOrder.id)).shipping_method = "service_point"

\* C13: a record's isFulfilled changes only in a fulfill-order call whose lookup
\* returned a fulfillment order and whose mutation reported SUCCESS; a lookup that
\* finds none sends no mutation; a mutation answered with userErrors leaves the
\* store as it was and hands that error list back with a 400
C13_FulfilledOnlyAfterBothSteps ==
    [][/\ (\E i \in 1..Len(db) : db'[i].isFulfilled # db[i].isFulfilled) =>
            /\ resp'.op = "fulfill-order"
            /\ resp'.lookup = "found"
            /\ resp'.lookups = 1
            /\ resp'.mutation = "SUCCESS"
            /\ resp'.mutations = 1
            /\ resp'.status = 200
       /\ \A i \in (Len(db) + 1)..Len(db') : ~db'[i].isFulfilled
       /\ resp'.op = "fulfill-order" =>
            /\ resp'.lookup # "found" =>
                    (resp'.mutations = 0 /\ db' = db /\ resp'.status >= 400)
            /\ resp'.mutation = "userErrors" =>
                    /\ db' = db
                    /\ resp'.status = 400
                    /\ resp'.error = UserErrors("userErrors")
            /\ resp'.status = 200 =>
                    (resp'.lookup = "found" /\ resp'.mutation = "SUCCESS")]_vars

\* a stored order fulfilled, then a second call for it answered with userErrors
C13_Witness ==
    /\ resp.op = "fulfill-order"
    /\ resp.existed
    /\ resp.mutation = "userErrors"
    /\ resp.status = 400
    /\ Stored(toString(resp.orderId)).isFulfilled
    /\ \E i \in 1..Len(db) : ~db[i].isFulfilled

\* C16: every stored line item's quantity is a non-negative integer and every
\* stored dimensions.boxes, when set, is a positive integer
C16_QuantitiesAndBoxesInRange ==
    \A i \in 1..Len(db) :
        /\ \A k \in 1..Len(db[i].line_items) : db[i].line_items[k].quantity \in Nat
        /\ db[i].dimensions.boxes # Null =>
                /\ db[i].dimensions.boxes.t = "num"
                /\ db[i].dimensions.boxes.v \in Nat \ {0}

\* the paths a measurement update and a pickup-point update may write
MeasurementPaths == {"dimensions", "shipping_method"}
PickupPaths == {"pickupPoint"}
UserPaths == {"dimensions", "pickupPoint", "isFulfilled"}

\* document i is the same before and after, but for the paths named
SameBut(i, paths) == \A f \in SchemaPaths \ paths : db'[i][f] = db[i][f]

\* C17: a webhook leaves every stored order's dimensions, pickupPoint and
\* isFulfilled as they were; isFulfilled never goes back to false; a measurement
\* update writes dimensions and shipping_method of the addressed order and
\* nothing else, a pickup-point update its pickupPoint and nothing else
C17_UserStateKeptAndFramed ==
    [][\A i \in 1..Len(db) :
        /\ db'[i].shopifyId = db[i].shopifyId
        /\ db[i].isFulfilled => db'[i].isFulfilled
        /\ resp'.op = "webhook" => \A f \in UserPaths : db'[i][f] = db[i][f]
        /\ resp'.op = "update-measurements" =>
                /\ SameBut(i, MeasurementPaths)
                /\ db[i].shopifyId # toString(resp'.orderId) => db'[i] = db[i]
        /\ resp'.op = "update-pickup-point" =>
                /\ SameBut(i, PickupPaths)
                /\ db[i].shopifyId # toString(resp'.orderId) => db'[i] = db[i]
        /\ resp'.op = "fulfill-order" => SameBut(i, {"isFulfilled"})]_vars

\* an order measured, given a pickup point and fulfilled, then ingested again
C17_Witness ==
    /\ IsWebhookAnswer
    /\ Answered.status = 200
    /\ Answered.found > 0
    /\ Len(db) = 2
    /\ LET doc == Stored(toString(AnsweredOrder.id))
       IN  /\ doc.dimensions # DefaultDimensions
           /\ doc.pickupPoint # Undefined
           /\ doc.isFulfilled
           /\ doc.orderNumber = Str("1002")

\* the address fields and the dimensions a shipment cannot be made without
RequiredAddressPaths == {"name", "address1", "zip", "city", "country_code"}
RequiredDimensionPaths == {"boxes", "weight"}

Absent(x) == x.t \in {"undefined", "null"}

MissingRequired(dimensions, orderData) ==
    \/ Absent(dimensions)
    \/ \E f \in RequiredDimensionPaths : Absent(dimensions[f])
    \/ Absent(orderData)
    \/ Absent(orderData.shipping_address)
    \/ \E f \in RequiredAddressPaths : Absent(orderData.shipping_address[f])

\* C14: a create-shipment request that lacks a required dimension or address
\* field is answered 400 and nothing is sent to the carrier
C14_MissingFieldIsInvalidInput ==
    (resp.op = "create-shipment" /\ MissingRequired(resp.dimensions, resp.orderData)) =>
        /\ resp.status = 400
        /\ resp.calls = 0

\* the outbound call of the last request did not succeed
CarrierFailed ==
    resp.op = "create-shipment" /\ resp.carrier \in {"network_error", "parse_error", "rejected"}
CatalogFailed ==
    IsWebhookAnswer /\ Answered.calls = 1
        /\ Answered.cat \in {NetworkError, ParseError, ErrorPayload}
FulfillmentFailed ==
    resp.op = "fulfill-order"
        /\ (resp.lookup = "network_error"
                \/ resp.mutation \in {"network_error", "no_data", "userErrors"})

\* C15: a request issues each of its outbound calls at most once, and a request
\* whose outbound call failed is answered with an error status
C15_NoRetryFailureReported ==
    /\ resp.op = "create-shipment" => resp.calls <= 1
    /\ CarrierFailed => resp.status >= 400
    /\ IsWebhookAnswer => Answered.calls <= 1
    /\ CatalogFailed => Answered.status >= 400
    /\ resp.op = "fulfill-order" => (resp.lookups <= 1 /\ resp.mutations <= 1)
    /\ FulfillmentFailed => resp.status >= 400

\* the id a listed order carries: shopifyId in the collection, id in memory
ListedId(order) ==
    IF resp.revision = "persisted" THEN order.shopifyId ELSE NumToStr(order.id.v)

\* C11: with n orders ingested, each once, the list is the min(n, 50) orders
\* ingested last, the newest first
C11_ListIsFiftyNewest ==
    resp.op = "list-orders" =>
        LET n == IF resp.revision = "persisted" THEN IngestedPersisted
                 ELSE IngestedInMemory
            m == IF n < ListLimit THEN n ELSE ListLimit
        IN  /\ Len(resp.orders) = m
            /\ \A k \in 1..m : ListedId(resp.orders[k]) = NumToStr(n - k + 1)

\* C12: the in-memory list holds at most one record per order id, and the order
\* of the webhook just stored is at its head
C12_InMemoryUniqueNewestFirst ==
    /\ \A i, j \in 1..Len(ordersStore) :
            ordersStore[i].id = ordersStore[j].id => i = j
    /\ (resp.op = "webhook-in-memory" /\ resp.status = 200) =>
            ordersStore[1].id = Body(resp.req).id

====
